---------------------------- MODULE Spec2Model ----------------------------
(***************************************************************************)
(* A model of src/app.py: the Flask /ocr endpoint (ocr_image), its helpers *)
(* allowed_file and downscale_image, the process-wide EasyOCR reader and   *)
(* the upload folder the requests share.                                   *)
(*                                                                         *)
(* Python strings are modelled as sequences of one-character strings, so   *)
(* that lower(), rsplit(), strip(), join() and the `in` substring test are *)
(* computed rather than assumed.                                           *)
(***************************************************************************)
EXTENDS Integers, Sequences, FiniteSets, TLC

VARIABLES
    reader,      \* the module-level EasyOCR handle: "Ready" or "None"
    storage,     \* the upload folder: slot name -> file content
    pc,          \* per request: the place ocr_image has reached
    image_file,  \* per request: request.files['image'] (filename and bytes)
    file_path,   \* per request: the slot name the handler computed
    img,         \* per request: the image downscale_image holds in memory
    resp,        \* per request: the response the handler built
    hist,        \* per request: what the handler did (observation only)
    request,     \* per request: the HTTP request, until line 86 has read its body
    ocr_result   \* per request: result, what reader.readtext gave (line 91), until the return

vars == <<reader, storage, pc, image_file, file_path, img, resp, hist, request, ocr_result>>

(***************************************************************************)
(* Bounds of the model.                                                    *)
(***************************************************************************)
\* requests served concurrently (app.run serves each request on a thread)
NumRequests == 2
\* dimensions 1..DimSpan and max_dim-DimSpan..max_dim+DimSpan are uploaded
DimSpan == 3
\* a filename is built from at most MaxNameParts parts
MaxNameParts == 3
\* readtext returns at most MaxDets detections
MaxDets == 2

Requests == 1 .. NumRequests

(***************************************************************************)
(* Strings.                                                                *)
(***************************************************************************)
UPPERCASE == <<"A","B","C","D","E","F","G","H","I","J","K","L","M","N","O","P","Q","R","S","T","U","V","W","X","Y","Z">>
LOWERCASE == <<"a","b","c","d","e","f","g","h","i","j","k","l","m","n","o","p","q","r","s","t","u","v","w","x","y","z">>
DIGITS == <<"0","1","2","3","4","5","6","7","8","9">>

Range(s) == {s[i] : i \in 1 .. Len(s)}

\* str.lower() on one character
lower_char(c) ==
    IF c \in Range(UPPERCASE)
    THEN LOWERCASE[CHOOSE i \in 1 .. Len(UPPERCASE) : UPPERCASE[i] = c]
    ELSE c

\* str.lower()
lower(s) == [i \in 1 .. Len(s) |-> lower_char(s[i])]

\* Python's `k in s` for strings: scan s from the left for an occurrence of k
RECURSIVE str_in(_, _)
str_in(k, s) ==
    IF Len(k) > Len(s) THEN FALSE
    ELSE IF SubSeq(s, 1, Len(k)) = k THEN TRUE
    ELSE str_in(k, Tail(s))

\* the index of the last occurrence of character c in s, 0 when there is none
RECURSIVE rfind(_, _)
rfind(s, c) ==
    IF s = <<>> THEN 0
    ELSE IF s[Len(s)] = c THEN Len(s)
    ELSE rfind(SubSeq(s, 1, Len(s) - 1), c)

\* filename.rsplit('.', 1)[1], for a filename that holds a dot
rsplit_ext(filename) == SubSeq(filename, rfind(filename, ".") + 1, Len(filename))

\* str.strip(chars): drop leading and trailing characters that are in chars
RECURSIVE lstrip(_, _)
lstrip(s, chars) ==
    IF s # <<>> /\ s[1] \in chars THEN lstrip(Tail(s), chars) ELSE s

RECURSIVE rstrip(_, _)
rstrip(s, chars) ==
    IF s # <<>> /\ s[Len(s)] \in chars
    THEN rstrip(SubSeq(s, 1, Len(s) - 1), chars)
    ELSE s

strip(s, chars) == rstrip(lstrip(s, chars), chars)

WHITESPACE == {" "}

\* sep.join(parts)
RECURSIVE join(_, _)
join(sep, parts) ==
    IF parts = <<>> THEN <<>>
    ELSE IF Len(parts) = 1 THEN parts[1]
    ELSE parts[1] \o sep \o join(sep, Tail(parts))

\* str.split(): the maximal runs of non-whitespace characters, in order
RECURSIVE split_ws(_, _)
split_ws(s, cur) ==
    IF s = <<>> THEN (IF cur = <<>> THEN <<>> ELSE <<cur>>)
    ELSE IF s[1] \in WHITESPACE
         THEN (IF cur = <<>> THEN <<>> ELSE <<cur>>) \o split_ws(Tail(s), <<>>)
         ELSE split_ws(Tail(s), Append(cur, s[1]))

\* str.replace(a, b) for single characters
replace_char(s, a, b) == [i \in 1 .. Len(s) |-> IF s[i] = a THEN b ELSE s[i]]

\* re.sub of every character outside keep by nothing
RECURSIVE keep_only(_, _)
keep_only(s, keep) ==
    IF s = <<>> THEN <<>>
    ELSE (IF s[1] \in keep THEN <<s[1]>> ELSE <<>>) \o keep_only(Tail(s), keep)

(***************************************************************************)
(* Configuration and helpers of app.py.                                    *)
(***************************************************************************)
ALLOWED_EXTENSIONS == {<<"p","n","g">>, <<"j","p","g">>, <<"j","p","e","g">>}

max_dim == 1600

\* the mutant: the extension is compared as written, without .lower()
allowed_file_case_sensitive(filename) ==
    /\ filename # <<>>
    /\ "." \in Range(filename)
    /\ rsplit_ext(filename) \in ALLOWED_EXTENSIONS

allowed_file(filename) ==
    /\ filename # <<>>
    /\ "." \in Range(filename)
    /\ lower(rsplit_ext(filename)) \in ALLOWED_EXTENSIONS

\* werkzeug's secure_filename on ASCII names: path separators become spaces,
\* whitespace runs become "_", characters outside [A-Za-z0-9_.-] are dropped
\* and leading and trailing "." and "_" are stripped
FILENAME_ASCII == Range(UPPERCASE) \cup Range(LOWERCASE) \cup Range(DIGITS) \cup {"_", ".", "-"}

secure_filename(filename) ==
    strip(keep_only(join(<<"_">>, split_ws(replace_char(filename, "/", " "), <<>>)),
                    FILENAME_ASCII),
          {".", "_"})


\* The sides m of the modelled sizes for which the double m * (max_dim / m)
\* comes out one unit in the last place below max_dim: the quotient of line 48
\* is rounded before the product of line 50 (2156 * (1600 / 2156) =
\* 1599.9999999999998).  No other product of the modelled sizes that is an
\* integer in exact arithmetic falls below it.
PRODUCT_BELOW == {2156}

\* int(x * scale) with scale = max_dim / m computed in double precision
\* (lines 48 and 50): int() truncates, so the result is the floor of the
\* product
float_trunc(x, m) ==
    LET q == (x * max_dim) \div m
    IN  IF x = m /\ m \in PRODUCT_BELOW THEN q - 1 ELSE q

Max(a, b) == IF a >= b THEN a ELSE b

\* the size line 50 passes to img.resize for a w x h image with scale < 1.0
resize_target(w, h) ==
    LET m == Max(w, h)
    IN  <<float_trunc(w, m), float_trunc(h, m)>>

\* a detection as readtext returns it: n = len(det); text = det[1] when n > 1,
\* and str tells whether det[1] is a string
\* extracted_text = [det[1] for det in result if len(det) > 1]   (line 93)
extracted_text(result) == SelectSeq(result, LAMBDA det : det.n > 1)

\* " ".join raises TypeError when an item is not a string
join_raises(extracted) == \E i \in 1 .. Len(extracted) : ~extracted[i].str

\* the mutant: the joined text is not stripped
aggregate_unstripped(result) ==
    LET extracted == extracted_text(result)
    IN  join(<<" ">>, [i \in 1 .. Len(extracted) |-> extracted[i].text])

\* text = " ".join(extracted_text).strip()   (line 94)
aggregate(result) ==
    LET extracted == extracted_text(result)
    IN  strip(join(<<" ">>, [i \in 1 .. Len(extracted) |-> extracted[i].text]), WHITESPACE)

GROUP_A == << <<"b","i","r","t","h"," ","c","e","r","t","i","f","i","c","a","t","e">>,
              <<"c","h","i","l","d">>,
              <<"r","e","g","i","s","t","r","y">>,
              <<"p","h","i","l","i","p","p","i","n","e"," ","s","t","a","t","i","s","t","i","c","s">> >>

GROUP_B == << <<"i","d">>,
              <<"r","e","p","u","b","l","i","c">>,
              <<"p","h","i","l","i","p","p","i","n","e","s">>,
              <<"n","a","t","i","o","n","a","l"," ","i","d">>,
              <<"l","i","c","e","n","s","e">>,
              <<"p","a","s","s","p","o","r","t">> >>

\* any(k in lower_text for k in group)
any_in(group, lower_text) == \E i \in 1 .. Len(group) : str_in(group[i], lower_text)

\* the mutant: the identification-card keywords are tried first
document_type_id_first(text) ==
    LET lower_text == lower(text)
    IN  IF any_in(GROUP_B, lower_text) THEN "Identification Card"
        ELSE IF any_in(GROUP_A, lower_text) THEN "Birth Certificate"
        ELSE "Unknown"

\* the classification of lines 97-103
document_type(text) ==
    LET lower_text == lower(text)
    IN  IF any_in(GROUP_A, lower_text) THEN "Birth Certificate"
        ELSE IF any_in(GROUP_B, lower_text) THEN "Identification Card"
        ELSE "Unknown"

(***************************************************************************)
(* Values of the state.                                                    *)
(***************************************************************************)
MAX_CONTENT_LENGTH == 5 * 1024 * 1024

\* A file's content: enc is "raw" (the bytes as uploaded, decodable),
\* "corrupt" (the bytes as uploaded, not decodable), "jpeg" (re-encoded by
\* downscale_image), "trunc" (left behind by a write that failed) or "none"
\* (no file); w, h the size of the image.
NoFile == [enc |-> "none", w |-> 0, h |-> 0]
Truncated == [enc |-> "trunc", w |-> 0, h |-> 0]
Corrupt == [enc |-> "corrupt", w |-> 0, h |-> 0]
Raw(w, h) == [enc |-> "raw", w |-> w, h |-> h]
Jpeg(w, h) == [enc |-> "jpeg", w |-> w, h |-> h]

Decodable(c) == c.enc \in {"raw", "jpeg"}

NoUpload == [filename |-> <<>>]
NoImg == [w |-> 0, h |-> 0]
NoResp == [status |-> 0, error |-> "", raised_by |-> "", document_type |-> "", text |-> <<>>]

\* what the handler did: saved (line 86 returned), wrote (line 86 wrote to the
\* slot), upload (the bytes line 86 stored, until line 91 has read the slot),
\* norm (downscale_image: "no" not run, "ok", or the step that raised:
\* "open_failed", "resize_failed", "save_failed"), ocr_calls (calls of readtext)
NoHist == [saved |-> FALSE, wrote |-> FALSE, upload |-> NoFile, norm |-> "no", ocr_calls |-> 0]

\* a request: the length of its body, what its part named "image" is ("file":
\* a part with a filename parameter, which werkzeug puts in request.files;
\* "field": a part without one, which it puts in request.form; "none": no such
\* part) and the filename of a "file" part
NoRequest == [content_length |-> 0, part |-> "none", filename |-> <<>>]

\* the local variable result of line 91: not assigned, not assigned because
\* readtext raised, or the sequence of detections readtext returned
NoResult == [state |-> "none", dets |-> <<>>]
Raised == [state |-> "raised", dets |-> <<>>]
Returned(dets) == [state |-> "returned", dets |-> dets]

\* jsonify({"error": error}), status
ErrorResponse(status, error, raised_by) ==
    [status |-> status, error |-> error, raised_by |-> raised_by,
     document_type |-> "", text |-> <<>>]

\* jsonify({"document_type": ..., "text": ..., "fields": ...})   (lines 105-109)
SuccessResponse(doc_type, text) ==
    [status |-> 200, error |-> "", raised_by |-> "", document_type |-> doc_type, text |-> text]

\* Flask's answer to an exception that leaves ocr_image (debug is off)
Unhandled(raised_by) == ErrorResponse(500, "Internal Server Error", raised_by)

(***************************************************************************)
(* The inputs the requests are drawn from.                                 *)
(***************************************************************************)
A_PNG == <<"a",".","p","n","g">>

\* the filenames of the concurrent specification: empty, two that sanitize to
\* the same slot, one that is not allowed
Filenames == {<<>>, A_PNG, <<".",".","/","a",".","p","n","g">>, <<"a",".","g","i","f">>}

\* the slots of the upload folder
Slots == {secure_filename(f) : f \in {g \in Filenames : allowed_file(g)}}

\* the uploads of the concurrent specification: one that is not an image and
\* one that is (every size is covered by SpecStored)
Images == {Corrupt, Raw(800, 600)}

\* a body over the limit, a body without an image part, a body whose image
\* part has no filename, and the uploads
RequestsOf(filenames) ==
    [content_length : {MAX_CONTENT_LENGTH + 1}, part : {"file"}, filename : {A_PNG}]
    \cup [content_length : {1024}, part : {"none", "field"}, filename : {<<>>}]
    \cup [content_length : {1024}, part : {"file"}, filename : filenames]

Det(text) == [n |-> 3, text |-> text, str |-> TRUE]
\* a detection with no text position, and one whose text position holds a number
DetShort == [n |-> 1, text |-> <<>>, str |-> TRUE]
DetNumber == [n |-> 3, text |-> <<>>, str |-> FALSE]

\* the results of the concurrent specification
Results == {<<>>, <<Det(<<"C","h","i","l","d">>), Det(<<"I","D">>)>>, <<DetShort>>, <<DetNumber>>}

(***************************************************************************)
(* ocr_image, one action per step between two accesses to the upload       *)
(* folder.  pc: "start" (request received), "save" (validated, line 86     *)
(* next), "decode" (stored, downscale_image next), "encode" (img.save      *)
(* next), "readtext" (line 91 next), "finally" (response built, cleanup    *)
(* next), "done" (response returned).                                      *)
(***************************************************************************)
\* the mutant: the handler never notices that the reader is missing
engine_unavailable_never == FALSE

\* `if reader is None`   (line 71)
engine_unavailable == reader = "None"

\* the mutant: the upload is stored before it is validated, and a rejection
\* leaves it there
reject_after_save(r, req, status, error) ==
    /\ pc' = [pc EXCEPT ![r] = "done"]
    /\ resp' = [resp EXCEPT ![r] = ErrorResponse(status, error, "")]
    /\ storage' = [s \in DOMAIN storage \cup {secure_filename(req.filename)} |->
                     IF s = secure_filename(req.filename) THEN Corrupt ELSE storage[s]]
    /\ hist' = [hist EXCEPT ![r].wrote = TRUE]
    /\ UNCHANGED <<file_path, img, ocr_result>>

\* `return jsonify({"error": ...}), status` ahead of line 84 (lines 72, 75, 79,
\* 82) and the 413 handler (line 123): nothing but the response is produced
reject(r, req, status, error) ==
    /\ pc' = [pc EXCEPT ![r] = "done"]
    /\ resp' = [resp EXCEPT ![r] = ErrorResponse(status, error, "")]
    /\ UNCHANGED <<storage, file_path, img, hist, ocr_result>>

\* the mutant: no limit is configured (lines 17-20 left out)
too_large_never(req) == FALSE

\* the body is longer than app.config['MAX_CONTENT_LENGTH'] (lines 17-20):
\* werkzeug raises RequestEntityTooLarge when request.files is first read
\* (line 74)
too_large(req) == req.content_length > MAX_CONTENT_LENGTH

\* lines 71-85: the reader check, the body-size check made when request.files
\* is first read (MAX_CONTENT_LENGTH, 413), the validation and the slot name
ocr_image_entry(r, reqs) ==
    /\ pc[r] = "start"
    /\ UNCHANGED reader
    /\ \E req \in reqs :
         /\ request' = [request EXCEPT ![r] = req]
         /\ IF engine_unavailable
            THEN reject(r, req, 500, "OCR model not initialized") /\ UNCHANGED image_file
            ELSE IF too_large(req)
            THEN reject(r, req, 413, "File too large. Max 5 MB") /\ UNCHANGED image_file
            ELSE IF req.part # "file"
            THEN reject(r, req, 400, "No image uploaded") /\ UNCHANGED image_file
            ELSE /\ image_file' = [image_file EXCEPT ![r] = [filename |-> req.filename]]
                 /\ IF req.filename = <<>>
                    THEN reject(r, req, 400, "Empty filename")
                    ELSE IF ~allowed_file(req.filename)
                    THEN reject(r, req, 400, "Only PNG and JPG images are allowed")
                    ELSE /\ file_path' = [file_path EXCEPT ![r] = secure_filename(req.filename)]
                         /\ pc' = [pc EXCEPT ![r] = "save"]
                         /\ UNCHANGED <<storage, img, resp, hist, ocr_result>>

\* line 86, image_file.save(file_path) returns: the slot holds the upload,
\* whose bytes are drawn here, where they are first read
SaveOk(r, images) ==
    /\ pc[r] = "save"
    /\ \E image \in images :
         /\ storage' = [storage EXCEPT ![file_path[r]] = image]
         /\ hist' = [hist EXCEPT ![r].saved = TRUE, ![r].wrote = TRUE, ![r].upload = image]
    /\ image_file' = [image_file EXCEPT ![r] = NoUpload]
    /\ request' = [request EXCEPT ![r] = NoRequest]
    /\ pc' = [pc EXCEPT ![r] = "decode"]
    /\ UNCHANGED <<reader, file_path, img, resp, ocr_result>>

\* line 86 raises before the slot is opened for writing: the exception leaves
\* ocr_image (line 86 is outside the try of line 89)
SaveFailsUnopened(r) ==
    /\ pc[r] = "save"
    /\ resp' = [resp EXCEPT ![r] = Unhandled("save")]
    /\ image_file' = [image_file EXCEPT ![r] = NoUpload]
    /\ request' = [request EXCEPT ![r] = NoRequest]
    /\ pc' = [pc EXCEPT ![r] = "done"]
    /\ UNCHANGED <<reader, storage, file_path, img, hist, ocr_result>>

\* line 86 raises while writing: the slot is left with a part of the upload
SaveFailsWriting(r) ==
    /\ pc[r] = "save"
    /\ storage' = [storage EXCEPT ![file_path[r]] = Truncated]
    /\ hist' = [hist EXCEPT ![r].wrote = TRUE]
    /\ resp' = [resp EXCEPT ![r] = Unhandled("save")]
    /\ image_file' = [image_file EXCEPT ![r] = NoUpload]
    /\ request' = [request EXCEPT ![r] = NoRequest]
    /\ pc' = [pc EXCEPT ![r] = "done"]
    /\ UNCHANGED <<reader, file_path, img, ocr_result>>

\* the mutant: downscale_image without its try/except, the error leaves
\* ocr_image
downscale_raises(r, step) ==
    /\ pc' = [pc EXCEPT ![r] = "done"]
    /\ resp' = [resp EXCEPT ![r] = Unhandled("downscale_image")]
    /\ hist' = [hist EXCEPT ![r].norm = step, ![r].upload = NoFile]
    /\ img' = [img EXCEPT ![r] = NoImg]

\* `except Exception as err: print(...)` of downscale_image (lines 52-53):
\* the caller goes on to line 89
downscale_swallows(r, step) ==
    /\ pc' = [pc EXCEPT ![r] = "readtext"]
    /\ hist' = [hist EXCEPT ![r].norm = step]
    /\ img' = [img EXCEPT ![r] = NoImg]
    /\ UNCHANGED resp

\* lines 45-50: Image.open, convert, the scale and the resize.  Opening a
\* missing or undecodable file raises; so does a resize to a size with a zero
\* (Pillow: "height and width must be > 0").
Decode(r) ==
    /\ pc[r] = "decode"
    /\ UNCHANGED <<reader, storage, image_file, file_path, request, ocr_result>>
    /\ LET c == storage[file_path[r]]
       IN  IF ~Decodable(c)
           THEN downscale_swallows(r, "open_failed")
           ELSE IF max_dim < Max(c.w, c.h)
           THEN LET size == resize_target(c.w, c.h)
                IN  IF size[1] < 1 \/ size[2] < 1
                    THEN downscale_swallows(r, "resize_failed")
                    ELSE /\ img' = [img EXCEPT ![r] = [w |-> size[1], h |-> size[2]]]
                         /\ pc' = [pc EXCEPT ![r] = "encode"]
                         /\ UNCHANGED <<resp, hist>>
           ELSE /\ img' = [img EXCEPT ![r] = [w |-> c.w, h |-> c.h]]
                /\ pc' = [pc EXCEPT ![r] = "encode"]
                /\ UNCHANGED <<resp, hist>>

\* line 51, img.save(path, format='JPEG') returns: the slot is overwritten
EncodeOk(r) ==
    /\ pc[r] = "encode"
    /\ storage' = [storage EXCEPT ![file_path[r]] = Jpeg(img[r].w, img[r].h)]
    /\ hist' = [hist EXCEPT ![r].norm = "ok"]
    /\ img' = [img EXCEPT ![r] = NoImg]
    /\ pc' = [pc EXCEPT ![r] = "readtext"]
    /\ UNCHANGED <<reader, image_file, file_path, resp, request, ocr_result>>

\* line 51 raises before the slot is opened for writing
EncodeFailsUnopened(r) ==
    /\ pc[r] = "encode"
    /\ downscale_swallows(r, "save_failed")
    /\ UNCHANGED <<reader, storage, image_file, file_path, request, ocr_result>>

\* line 51 raises while writing: Image.save has opened the slot with "w+b",
\* which truncates it, and does not restore a file that existed before
EncodeFailsWriting(r) ==
    /\ pc[r] = "encode"
    /\ storage' = [storage EXCEPT ![file_path[r]] = Truncated]
    /\ downscale_swallows(r, "save_failed")
    /\ UNCHANGED <<reader, image_file, file_path, request, ocr_result>>

\* the mutant: the failed call is made again
ocr_failed_retries(r, raised_by) ==
    /\ UNCHANGED <<pc, resp, reader>>

\* the mutant: the handle is torn down when the engine fails
ocr_failed_drops_reader(r, raised_by) ==
    /\ resp' = [resp EXCEPT ![r] = ErrorResponse(500, "str(e)", raised_by)]
    /\ pc' = [pc EXCEPT ![r] = "finally"]
    /\ reader' = "None"

\* the mutant: the exception is passed over and an empty result answered
ocr_failed_returns_success(r, raised_by) ==
    /\ resp' = [resp EXCEPT ![r] = SuccessResponse("Unknown", <<>>)]
    /\ pc' = [pc EXCEPT ![r] = "finally"]
    /\ UNCHANGED reader

\* `except Exception as e: ... return jsonify({"error": str(e)}), 500`
\* (lines 110-112); the finally clause is next
ocr_failed(r, raised_by) ==
    /\ resp' = [resp EXCEPT ![r] = ErrorResponse(500, "str(e)", raised_by)]
    /\ pc' = [pc EXCEPT ![r] = "finally"]
    /\ UNCHANGED reader

\* lines 89-112: readtext, the aggregation, the classification and the
\* response; every exception raised there becomes a 500 with str(e).  The
\* engine raises on a path that names no file.
Readtext(r, results) ==
    /\ pc[r] = "readtext"
    /\ hist' = [hist EXCEPT ![r].ocr_calls = @ + 1, ![r].upload = NoFile]
    /\ UNCHANGED <<storage, image_file, file_path, img, request>>
    /\ IF reader = "None"
       THEN ocr_failed(r, "reader") /\ UNCHANGED ocr_result
       ELSE \/ /\ ocr_result' = [ocr_result EXCEPT ![r] = Raised]
               /\ ocr_failed(r, "readtext")
            \/ /\ storage[file_path[r]] # NoFile
               /\ \E dets \in results :
                    /\ ocr_result' = [ocr_result EXCEPT ![r] = Returned(dets)]
                    /\ IF join_raises(extracted_text(dets))
                       THEN ocr_failed(r, "join")
                       ELSE /\ resp' = [resp EXCEPT ![r] =
                                          SuccessResponse(document_type(aggregate(dets)),
                                                          aggregate(dets))]
                            /\ pc' = [pc EXCEPT ![r] = "finally"]
                            /\ UNCHANGED reader

\* lines 113-116: the slot exists and os.remove removes it
CleanupRemoves(r) ==
    /\ pc[r] = "finally"
    /\ storage[file_path[r]] # NoFile
    /\ storage' = [storage EXCEPT ![file_path[r]] = NoFile]
    /\ ocr_result' = [ocr_result EXCEPT ![r] = NoResult]
    /\ pc' = [pc EXCEPT ![r] = "done"]
    /\ UNCHANGED <<reader, image_file, file_path, img, resp, hist, request>>

\* lines 113-118: the slot does not exist, or os.remove raises and the
\* exception is passed over
CleanupLeaves(r) ==
    /\ pc[r] = "finally"
    /\ ocr_result' = [ocr_result EXCEPT ![r] = NoResult]
    /\ pc' = [pc EXCEPT ![r] = "done"]
    /\ UNCHANGED <<reader, storage, image_file, file_path, img, resp, hist, request>>

\* the worker takes the next request
NextRequest(r) ==
    /\ pc[r] = "done"
    /\ pc' = [pc EXCEPT ![r] = "start"]
    /\ image_file' = [image_file EXCEPT ![r] = NoUpload]
    /\ file_path' = [file_path EXCEPT ![r] = <<>>]
    /\ resp' = [resp EXCEPT ![r] = NoResp]
    /\ hist' = [hist EXCEPT ![r] = NoHist]
    /\ request' = [request EXCEPT ![r] = NoRequest]
    /\ UNCHANGED <<reader, storage, img, ocr_result>>

(***************************************************************************)
(* The concurrent specification: the service after start-up (lines 12-32), *)
(* its requests interleaved at every access to the upload folder.          *)
(***************************************************************************)
Idle ==
    /\ storage = [s \in Slots |-> NoFile]
    /\ pc = [r \in Requests |-> "start"]
    /\ image_file = [r \in Requests |-> NoUpload]
    /\ file_path = [r \in Requests |-> <<>>]
    /\ img = [r \in Requests |-> NoImg]
    /\ resp = [r \in Requests |-> NoResp]
    /\ hist = [r \in Requests |-> NoHist]
    /\ request = [r \in Requests |-> NoRequest]
    /\ ocr_result = [r \in Requests |-> NoResult]

\* lines 26-32: easyocr.Reader either loads or raises at import
Init ==
    /\ reader \in {"Ready", "None"}
    /\ Idle

Next ==
    \E r \in Requests :
        \/ ocr_image_entry(r, RequestsOf(Filenames))
        \/ SaveOk(r, Images)
        \/ SaveFailsUnopened(r)
        \/ SaveFailsWriting(r)
        \/ Decode(r)
        \/ EncodeOk(r)
        \/ EncodeFailsUnopened(r)
        \/ EncodeFailsWriting(r)
        \/ Readtext(r, Results)
        \/ CleanupRemoves(r)
        \/ CleanupLeaves(r)
        \/ NextRequest(r)

Spec == Init /\ [][Next]_vars

(***************************************************************************)
(* The inputs of the single-request specifications.                        *)
(***************************************************************************)
NameParts == {<<"a">>, <<".">>, <<"/">>, <<"p","n","g">>, <<"P","N","G">>, <<"j","p","g">>,
              <<"J","p","e","g">>, <<"g","i","f">>}

\* the concatenations of at most n parts
RECURSIVE NamesUpTo(_)
NamesUpTo(n) ==
    IF n = 0 THEN {<<>>}
    ELSE LET shorter == NamesUpTo(n - 1)
         IN  shorter \cup {p \o q : p \in shorter, q \in NameParts}

\* sizes around 1, around max_dim and beyond it
Dims == (1 .. DimSpan) \cup ((max_dim - DimSpan) .. (max_dim + DimSpan)) \cup {2000, 2156, 3200}

AllImages == {Corrupt} \cup {Raw(w, h) : w \in Dims, h \in Dims}

Detections ==
    {DetShort, DetNumber}
    \cup {Det(t) : t \in {<<>>, <<" ">>, <<"c","a","t">>, <<"v","a","l","i","d">>, <<"I","D">>,
                          <<"C","h","i","l","d">>, <<"B","i","r","t","h">>,
                          <<"C","e","r","t","i","f","i","c","a","t","e">>,
                          <<"R","e","p","u","b","l","i","c">>,
                          <<"P","h","i","l","i","p","p","i","n","e">>,
                          <<"S","t","a","t","i","s","t","i","c","s">>,
                          <<"p","a","s","s","p","o","r","t">>}}

\* the sequences of at most n detections
RECURSIVE ResultsUpTo(_)
ResultsUpTo(n) ==
    IF n = 0 THEN {<<>>}
    ELSE LET shorter == ResultsUpTo(n - 1)
         IN  shorter \cup {Append(res, det) : res \in shorter, det \in Detections}

(***************************************************************************)
(* The validator on its own: one request, any filename.                    *)
(***************************************************************************)
ValidatorNext == ocr_image_entry(1, RequestsOf(NamesUpTo(MaxNameParts)))

SpecValidator == Init /\ [][ValidatorNext]_vars

(***************************************************************************)
(* One request from the moment line 86 has stored its upload as "a.png":   *)
(* downscale_image on any image, then the rest of the handler.             *)
(***************************************************************************)
Stored(image, at, norm) ==
    /\ reader = "Ready"
    /\ storage = [s \in Slots |-> image]
    /\ pc = [r \in Requests |-> IF r = 1 THEN at ELSE "start"]
    /\ image_file = [r \in Requests |-> NoUpload]
    /\ file_path = [r \in Requests |-> IF r = 1 THEN secure_filename(A_PNG) ELSE <<>>]
    /\ img = [r \in Requests |-> NoImg]
    /\ resp = [r \in Requests |-> NoResp]
    /\ hist = [r \in Requests |->
                 IF r = 1
                 THEN [saved |-> TRUE, wrote |-> TRUE, upload |-> image, norm |-> norm,
                       ocr_calls |-> 0]
                 ELSE NoHist]
    /\ request = [r \in Requests |-> NoRequest]
    /\ ocr_result = [r \in Requests |-> NoResult]

StoredInit == \E image \in AllImages : Stored(image, "decode", "no")

StoredNext ==
    \/ Decode(1)
    \/ EncodeOk(1)
    \/ EncodeFailsUnopened(1)
    \/ EncodeFailsWriting(1)
    \/ Readtext(1, Results)
    \/ CleanupRemoves(1)
    \/ CleanupLeaves(1)

SpecStored == StoredInit /\ [][StoredNext]_vars

(***************************************************************************)
(* One request from the moment downscale_image has returned: readtext      *)
(* returning any result, the aggregation and the classification.           *)
(***************************************************************************)
ClassifierInit == Stored(Jpeg(800, 600), "readtext", "ok")

ClassifierNext ==
    \/ Readtext(1, ResultsUpTo(MaxDets))
    \/ CleanupRemoves(1)
    \/ CleanupLeaves(1)

SpecClassifier == ClassifierInit /\ [][ClassifierNext]_vars

(***************************************************************************)
(* The claims.                                                             *)
(***************************************************************************)
\* request r's response is returned by this step
Returns(r) == pc[r] # "done" /\ pc'[r] = "done"

\* downscale_image raised (and passed over) at one of its steps
NormFailed(r) == hist[r].norm \in {"open_failed", "resize_failed", "save_failed"}

\* C1: whenever a request that wrote its upload to a slot returns its
\* response, on any exit path, the slot does not exist at that moment.
SlotRemovedAtResponse ==
    [][\A r \in Requests :
         (Returns(r) /\ hist'[r].wrote) => storage'[file_path[r]] = NoFile]_vars

\* C2: from the moment a request has saved its slot until its cleanup runs,
\* no step of another request writes, overwrites or deletes that slot.
SlotNotShared ==
    [][\A r \in Requests :
         (pc[r] \in {"decode", "encode", "readtext", "finally"} /\ pc'[r] = pc[r])
             => storage'[file_path[r]] = storage[file_path[r]]]_vars

\* C3: a request that stored its upload and is past downscale_image has
\* invoked readtext exactly once, whether downscale_image succeeded or raised,
\* and its response never reports an exception of downscale_image.
NormalizationNeverAborts ==
    \A r \in Requests :
        (hist[r].saved /\ pc[r] \in {"finally", "done"})
            => /\ hist[r].norm # "no"
               /\ hist[r].ocr_calls = 1
               /\ resp[r].raised_by # "downscale_image"

\* C3 witness: downscale_image raised, readtext ran and the request succeeded
NormalizationFailedThenRecognized ==
    \E r \in Requests : NormFailed(r) /\ pc[r] = "done" /\ resp[r].status = 200

\* C4: when downscale_image has failed at any step, the slot holds exactly
\* the uploaded bytes at the moment readtext is invoked.
FailedNormalizationKeepsUpload ==
    (pc[1] = "readtext" /\ NormFailed(1)) => storage[file_path[1]] = hist[1].upload

\* C5: when the reader failed to load, every request ends with "OCR model not
\* initialized", readtext is never invoked, no slot is written, and the reader
\* is never loaded later.
EngineUnavailableFailsFast ==
    /\ [](reader = "None" =>
            /\ \A s \in DOMAIN storage : storage[s] = NoFile
            /\ \A r \in Requests :
                 /\ pc[r] \in {"start", "done"}
                 /\ hist[r] = NoHist
                 /\ pc[r] = "done" =>
                      resp[r] = ErrorResponse(500, "OCR model not initialized", ""))
    /\ [][reader = "None" => reader' = "None"]_vars

\* C5 witness: the reader is missing and every worker has answered a request
EngineUnavailableAnswered ==
    reader = "None" /\ \A r \in Requests : pc[r] = "done" /\ resp[r].status = 500

\* a response of kind MissingFile, EmptyFilename, UnsupportedType (400) or
\* PayloadTooLarge (413)
IsRejection(response) == response.status \in {400, 413}

\* C6: a request that ends with a validation or size error has written no
\* slot, run no normalizer and invoked no readtext, and the step that rejects
\* it leaves the upload folder as it was.
RejectionAllocatesNothing ==
    /\ [](\A r \in Requests : (pc[r] = "done" /\ IsRejection(resp[r])) => hist[r] = NoHist)
    /\ [][\A r \in Requests :
            (Returns(r) /\ IsRejection(resp'[r])) => storage' = storage]_vars

\* C6 witness: a request is rejected for its extension while the upload of
\* another request is in the folder
RejectedBesideStoredUpload ==
    \E r, q \in Requests :
        /\ pc[r] = "done"
        /\ resp[r].error = "Only PNG and JPG images are allowed"
        /\ pc[q] = "readtext"
        /\ storage[file_path[q]] # NoFile

\* k occurs in s as a contiguous run of characters
Occurs(k, s) == \E i \in 0 .. (Len(s) - Len(k)) : \A j \in 1 .. Len(k) : s[i + j] = k[j]

OccursAny(group, s) == \E k \in Range(group) : Occurs(k, s)

\* C7: the label of a success response is "Birth Certificate" when the
\* lowercased text contains a Group A keyword as a substring, otherwise
\* "Identification Card" when it contains a Group B keyword as a substring,
\* otherwise "Unknown".
ClassificationFirstMatchWins ==
    \A r \in Requests :
        resp[r].status = 200 =>
            LET s == lower(resp[r].text)
            IN  /\ OccursAny(GROUP_A, s) => resp[r].document_type = "Birth Certificate"
                /\ (~OccursAny(GROUP_A, s) /\ OccursAny(GROUP_B, s))
                       => resp[r].document_type = "Identification Card"
                /\ (~OccursAny(GROUP_A, s) /\ ~OccursAny(GROUP_B, s))
                       => resp[r].document_type = "Unknown"

\* C7 witness: a text with a Group A keyword and a Group B keyword, the latter
\* inside a larger word, is labelled "Birth Certificate"
BothGroupsLabelledBirthCertificate ==
    /\ resp[1].status = 200
    /\ Occurs(<<"c","h","i","l","d">>, lower(resp[1].text))
    /\ Occurs(<<"v","a","l","i","d">>, lower(resp[1].text))
    /\ resp[1].document_type = "Birth Certificate"

\* the stored image after downscale_image, for an upload that decodes
Normalized(r) == pc[r] = "readtext" /\ Decodable(hist[r].upload) /\ hist[r].norm # "save_failed"

\* out is x scaled by max_dim / m, up to one unit of rounding
WithinRounding(out, x, m) ==
    /\ out * m - x * max_dim <= m
    /\ x * max_dim - out * m <= m

\* C8: after downscale_image returns on a decodable image wider or taller
\* than 1600, the stored image has both sides at most 1600 and the sides of
\* the upload scaled by the same factor, up to rounding.
DownscaleBoundsBothSides ==
    LET u == hist[1].upload
        c == storage[file_path[1]]
        m == Max(u.w, u.h)
    IN  (Normalized(1) /\ m > max_dim)
            => /\ Decodable(c)
               /\ c.w <= max_dim
               /\ c.h <= max_dim
               /\ WithinRounding(c.w, u.w, m)
               /\ WithinRounding(c.h, u.h, m)

\* downscale_image ran to its end: the stored image is the one it produced
Produced(r) == pc[r] = "readtext" /\ hist[r].norm = "ok"

\* x * max_dim / m rounded to the nearest integer, a half to the even one
Round(x, m) ==
    LET q == (x * max_dim) \div m
        twice == 2 * ((x * max_dim) % m)
    IN  IF twice < m THEN q
        ELSE IF twice > m THEN q + 1
        ELSE IF q % 2 = 0 THEN q ELSE q + 1

\* C9: the size downscale_image produces is (round(w * scale),
\* round(h * scale)) with scale = max_dim / max(w, h) when that is below 1,
\* and (w, h) when the image is at most max_dim on both sides.
DownscaleSizeIsRounded ==
    LET u == hist[1].upload
        c == storage[file_path[1]]
        m == Max(u.w, u.h)
    IN  Produced(1)
            => IF m > max_dim
               THEN c.w = Round(u.w, m) /\ c.h = Round(u.h, m)
               ELSE c.w = u.w /\ c.h = u.h

HasDot(f) == \E i \in 1 .. Len(f) : f[i] = "."

\* the characters after the last dot of f
ExtensionOf(f) ==
    LET p == CHOOSE i \in 1 .. Len(f) : f[i] = "." /\ \A j \in (i + 1) .. Len(f) : f[j] # "."
    IN  [k \in 1 .. (Len(f) - p) |-> f[p + k]]

ExtensionAllowed(f) ==
    /\ HasDot(f)
    /\ \E e \in ALLOWED_EXTENSIONS :
         /\ Len(e) = Len(ExtensionOf(f))
         /\ \A k \in 1 .. Len(e) : lower_char(ExtensionOf(f)[k]) = e[k]

\* the request got as far as the filename checks of lines 78-82
ValidatorRan(r) ==
    \/ pc[r] = "save"
    \/ pc[r] = "done" /\ resp[r].status = 400 /\ resp[r].error # "No image uploaded"

UnsupportedType(r) ==
    pc[r] = "done" /\ resp[r] = ErrorResponse(400, "Only PNG and JPG images are allowed", "")

\* C10 as stated: every filename without a dot or with an extension outside
\* {png, jpg, jpeg} is rejected with UnsupportedType, every other is accepted.
ValidatorDecidesByExtension ==
    \A r \in Requests :
        ValidatorRan(r) =>
            IF ExtensionAllowed(image_file[r].filename)
            THEN pc[r] = "save"
            ELSE UnsupportedType(r)

\* C10 amended: every non-empty filename without a dot or with an extension
\* outside {png, jpg, jpeg} (case-insensitively) is rejected with
\* UnsupportedType, and every filename whose extension is in the set is
\* accepted.
ValidatorDecidesNonEmptyByExtension ==
    \A r \in Requests :
        ValidatorRan(r) =>
            IF ExtensionAllowed(image_file[r].filename)
            THEN pc[r] = "save"
            ELSE image_file[r].filename # <<>> => UnsupportedType(r)

\* C10 witness: "png", a name without a dot, is rejected with UnsupportedType
DotlessNameRejected ==
    image_file[1].filename = <<"p","n","g">> /\ UnsupportedType(1)

\* the request that r has answered was handled with the engine loaded and a
\* body within the limit
Validated(r) ==
    /\ pc[r] = "done"
    /\ reader = "Ready"
    /\ request[r].content_length <= MAX_CONTENT_LENGTH

EmptyFilename(r) == resp[r] = ErrorResponse(400, "Empty filename", "")

\* C11: a request whose image part has an empty filename, or no filename at
\* all, is answered with EmptyFilename and with no other kind of error.
EmptyOrAbsentFilenameRejected ==
    \A r \in Requests :
        (/\ Validated(r)
         /\ \/ request[r].part = "field"
            \/ request[r].part = "file" /\ request[r].filename = <<>>)
            => EmptyFilename(r)

\* readtext has returned to request r and the response is built
Recognized(r) == pc[r] = "finally" /\ ocr_result[r].state = "returned"

\* C12: whatever sequence readtext returns, the detections without a usable
\* text (too short, or with something other than a string in the text
\* position) are dropped and the request is answered with a success.
MalformedDetectionsDropped ==
    \A r \in Requests : Recognized(r) => resp[r].status = 200

\* the texts of the detections that have a text position, in the order
\* readtext returned them
RECURSIVE TextsOf(_)
TextsOf(dets) ==
    IF dets = <<>> THEN <<>>
    ELSE LET last == dets[Len(dets)]
             before == TextsOf(SubSeq(dets, 1, Len(dets) - 1))
         IN  IF last.n > 1 THEN Append(before, last.text) ELSE before

\* the texts with one space between each two
RECURSIVE SpaceJoined(_)
SpaceJoined(texts) ==
    IF texts = <<>> THEN <<>>
    ELSE IF Len(texts) = 1 THEN texts[1]
    ELSE SpaceJoined(SubSeq(texts, 1, Len(texts) - 1)) \o <<" ">> \o texts[Len(texts)]

\* s from its first to its last character that is not a space
Trimmed(s) ==
    LET inked == {i \in 1 .. Len(s) : s[i] # " "}
    IN  IF inked = {} THEN <<>>
        ELSE SubSeq(s, CHOOSE i \in inked : \A j \in inked : i <= j,
                       CHOOSE i \in inked : \A j \in inked : j <= i)

BodyTooLarge(r) == request[r].content_length > MAX_CONTENT_LENGTH

PayloadTooLarge(r) == resp[r] = ErrorResponse(413, "File too large. Max 5 MB", "")

\* C14 as stated: a request with a body over the limit is answered with
\* PayloadTooLarge (413) and never reaches readtext, whether the engine is
\* loaded or not.
TooLargeAlwaysPayloadTooLarge ==
    \A r \in Requests :
        BodyTooLarge(r) => pc[r] = "done" /\ hist[r].ocr_calls = 0 /\ PayloadTooLarge(r)

\* C14 amended: a request with a body over the limit is answered on entry,
\* stores nothing and never reaches readtext; the answer is PayloadTooLarge
\* (413) when the engine is loaded and EngineUnavailable (500) when it is not.
TooLargeRejectedOnEntry ==
    \A r \in Requests :
        BodyTooLarge(r)
            => /\ pc[r] = "done"
               /\ hist[r] = NoHist
               /\ IF reader = "Ready"
                  THEN PayloadTooLarge(r)
                  ELSE resp[r] = ErrorResponse(500, "OCR model not initialized", "")

\* C14 witness: a body over the limit is answered 413 while another request
\* is about to call readtext
TooLargeRejectedBesideRecognition ==
    \E r, q \in Requests : BodyTooLarge(r) /\ PayloadTooLarge(r) /\ pc[q] = "readtext"

\* the places of ocr_image as the states of a request: "start" Received,
\* "save" Validated, "decode" Stored, "encode" Stored with the resized image
\* in memory, "readtext" Normalized, "finally" Recognized and Classified with
\* the response built, "done" Responded or Failed
ForwardSteps ==
    {<<"start", "save">>, <<"save", "decode">>, <<"decode", "encode">>,
     <<"decode", "readtext">>, <<"encode", "readtext">>, <<"readtext", "finally">>,
     <<"finally", "done">>}

Failed(response) == response.status >= 400

\* every step of a request is the next step of the pipeline, or is its
\* failure (from Received or from Validated), or takes up the next request
StepsInOrder ==
    [][\A r \in Requests :
         pc'[r] # pc[r]
             => \/ <<pc[r], pc'[r]>> \in ForwardSteps
                \/ pc[r] \in {"start", "save"} /\ pc'[r] = "done" /\ Failed(resp'[r])
                \/ pc[r] = "done" /\ pc'[r] = "start"]_vars

\* once a request has failed, its failure stays and only its cleanup and its
\* return follow
FailedIsAbsorbing ==
    [][\A r \in Requests :
         (Failed(resp[r]) /\ pc[r] # "done")
             => resp'[r] = resp[r] /\ pc'[r] \in {pc[r], "done"}]_vars

\* a failure of a request that wrote its slot is returned by the cleanup
CleanupBeforeFailureResponse ==
    [][\A r \in Requests :
         (Returns(r) /\ Failed(resp'[r]) /\ hist'[r].wrote) => pc[r] = "finally"]_vars

\* C15: a request goes through Received, Validated, Stored, Normalized,
\* Recognized, Classified, Responded in that order, or fails; a failure is
\* final, and the cleanup runs before a failure is answered.
PipelineOrderedFailureCleansUp ==
    /\ StepsInOrder
    /\ FailedIsAbsorbing
    /\ CleanupBeforeFailureResponse

\* C16: when readtext raises, the request is answered with a 500 that carries
\* the message of the exception, and readtext is called at most once for a
\* request on every path.
InferenceFailureNotRetried ==
    \A r \in Requests :
        /\ hist[r].ocr_calls <= 1
        /\ ocr_result[r].state = "raised"
               => /\ pc[r] = "finally"
                  /\ hist[r].ocr_calls = 1
                  /\ resp[r] = ErrorResponse(500, "str(e)", "readtext")

\* C16 witness: readtext raised for one request after it returned for another
InferenceFailedBesideSuccess ==
    \E r, q \in Requests :
        /\ ocr_result[r].state = "raised" /\ resp[r].status = 500
        /\ pc[q] = "done" /\ resp[q].status = 200

\* C17: no step of any request assigns the reader: it keeps the value that
\* lines 26-32 gave it.
ReaderNeverAssigned == [][reader' = reader]_vars

\* C17 witness: the reader is loaded and has served a request that succeeded
\* and one for which readtext raised
ReaderServedSuccessAndFailure ==
    /\ reader = "Ready"
    /\ \E r, q \in Requests :
         /\ pc[r] = "done" /\ resp[r].status = 200
         /\ pc[q] = "done" /\ resp[q].raised_by = "readtext"

\* the label of a text: the first group with a keyword in the lowercased text
LabelOf(text) ==
    IF OccursAny(GROUP_A, lower(text)) THEN "Birth Certificate"
    ELSE IF OccursAny(GROUP_B, lower(text)) THEN "Identification Card"
    ELSE "Unknown"

\* C18: a request has a response exactly from the moment it is built, the
\* response is never replaced, a success is built only when readtext has
\* returned, and the label of a success is one of the three labels and the
\* label of the text of that response.
OneResponseAndSuccessAfterReadtext ==
    /\ [](\A r \in Requests :
            /\ resp[r] # NoResp <=> pc[r] \in {"finally", "done"}
            /\ resp[r].status = 200
                   => /\ hist[r].ocr_calls = 1
                      /\ pc[r] = "finally" => ocr_result[r].state = "returned"
                      /\ resp[r].document_type
                             \in {"Birth Certificate", "Identification Card", "Unknown"}
                      /\ resp[r].document_type = LabelOf(resp[r].text))
    /\ [][\A r \in Requests :
            resp[r] # NoResp => \/ resp'[r] = resp[r]
                                \/ pc[r] = "done" /\ pc'[r] = "start"]_vars

\* C18 witness: a success labelled "Identification Card" has been returned
IdentificationCardReturned ==
    \E r \in Requests :
        /\ pc[r] = "done"
        /\ resp[r].status = 200
        /\ resp[r].document_type = "Identification Card"

=============================================================================
